---- MODULE Spec2Model ----
(***************************************************************************)
(* S.BUS frame codec (packet.rs, lib.rs) and streaming receiver            *)
(* (receiver.rs).  Bytes are integers 0..255, slices are sequences         *)
(* (1-based, so Rust bytes[i] is bytes[i + 1] here), the receiver's        *)
(* 26-byte array self.packet is a function on 0..25 (index 0 is the        *)
(* padding byte of the repr(C) struct Packet).                             *)
(***************************************************************************)
EXTENDS Integers, Sequences, FiniteSets, TLC

\* packet.rs:19
SBUS_PACKET_BEGIN == 15
\* packet.rs:20, size_of::<Packet>() - 1 (asserted to be 25 by the tests)
SBUS_PACKET_SIZE == 25

\* the whitelist without its last entry
is_sbus_packet_end_short(byte) == byte \in {0, 4, 20, 36}

\* receiver.rs:3-12
is_sbus_packet_end(byte) == byte \in {0, 4, 20, 36, 52}

----------------------------------------------------------------------------
(* Integer helpers for the u8/u16/u32 arithmetic of parse.                 *)

RECURSIVE BitOr(_, _)
BitOr(a, b) ==
    IF a = 0 THEN b
    ELSE IF b = 0 THEN a
    ELSE (IF a % 2 = 1 \/ b % 2 = 1 THEN 1 ELSE 0) + 2 * BitOr(a \div 2, b \div 2)

RECURSIVE BitAnd(_, _)
BitAnd(a, b) ==
    IF a = 0 \/ b = 0 THEN 0
    ELSE (IF a % 2 = 1 /\ b % 2 = 1 THEN 1 ELSE 0) + 2 * BitAnd(a \div 2, b \div 2)

\* (word as u32) << n for a u16 word and n <= 15: the product is below 2^31,
\* so no bit leaves the 32-bit register and the shift is exact
Shl32(word, n) == (word % (2 ^ 16)) * (2 ^ n)

----------------------------------------------------------------------------
(* Data and Packet (packet.rs).                                            *)

\* Data::default()
DataDefault ==
    [channels |-> [i \in 1..16 |-> 0], channel17 |-> FALSE, channel18 |-> FALSE,
     frame_lost |-> FALSE, failsafe |-> FALSE]

\* Option<Data>
None == <<>>
Some(data) == <<data>>

\* Packet.channel_words[j] read through u16::from_le: the struct is repr(C),
\* _padding at 0, header at 1, channel_words at 2..23, digital_and_flags at 24,
\* footer at 25.  Receiver.packet sits at an even offset of the 8-aligned
\* Receiver, so the transmuted reference is aligned and every build reads
\* the same little-endian words.
channel_words(p, j) == p[2 + 2 * j] + 256 * p[3 + 2 * j]
digital_and_flags(p) == p[24]

\* packet.rs:25
SHIFT == <<0, 5, 10, 15, 4, 9, 14, 3, 8, 13, 2, 7, 12, 1, 6, 11>>
\* the table that the comment of packet.rs:26 generates
INDEX_documented == [i \in 1..16 |-> (11 * i) \div 16]
\* packet.rs:27
INDEX == <<0, 1, 2, 2, 3, 4, 4, 5, 6, 6, 7, 8, 8, 9, 10, 10>>
\* lib.rs:41
LibSHIFT == <<0, 5, 10, 15, 4, 9, 14, 3, 8, 13, 2, 7, 12, 1, 6, 11>>
\* lib.rs:42
LibINDEX == <<0, 1, 2, 3, 3, 4, 5, 5, 6, 7, 7, 8, 9, 9, 10, 10>>

\* the loop "for i in 0..16" of parse, with the tables as parameters
RECURSIVE parse_loop(_, _, _, _, _, _)
parse_loop(p, shift, index, i, bits, channels) ==
    IF i = 16 THEN channels
    ELSE LET word == channel_words(p, index[i + 1])
             b1   == BitOr(bits, Shl32(word, shift[i + 1]))
         IN  parse_loop(p, shift, index, i + 1, b1 \div (2 ^ 11),
                        [channels EXCEPT ![i + 1] = BitAnd(b1 % (2 ^ 16), (2 ^ 11) - 1)])

\* the flags read from the low four bits of the flag byte
parse_flags_low(p, channels) ==
    [channels   |-> channels,
     channel17  |-> BitAnd(digital_and_flags(p), 2 ^ 3) > 0,
     channel18  |-> BitAnd(digital_and_flags(p), 2 ^ 2) > 0,
     frame_lost |-> BitAnd(digital_and_flags(p), 2 ^ 1) > 0,
     failsafe   |-> BitAnd(digital_and_flags(p), 2 ^ 0) > 0]

\* packet.rs:38-42
parse_flags(p, channels) ==
    [channels   |-> channels,
     channel17  |-> BitAnd(digital_and_flags(p), 2 ^ 7) > 0,
     channel18  |-> BitAnd(digital_and_flags(p), 2 ^ 6) > 0,
     frame_lost |-> BitAnd(digital_and_flags(p), 2 ^ 5) > 0,
     failsafe   |-> BitAnd(digital_and_flags(p), 2 ^ 4) > 0]

\* packet.rs Packet::parse, the one receiver.rs calls
parse(p) == parse_flags(p, parse_loop(p, SHIFT, INDEX, 0, 0, DataDefault.channels))

\* lib.rs Packet::parse
lib_parse(p) == parse_flags(p, parse_loop(p, LibSHIFT, LibINDEX, 0, 0, DataDefault.channels))

\* a 25-byte frame laid over a Packet: transmute of [0x00] ++ frame
AsPacket(frame) == [i \in 0..SBUS_PACKET_SIZE |-> IF i = 0 THEN 0 ELSE frame[i]]

----------------------------------------------------------------------------
(* Receiver (receiver.rs), as functions of the fields and the chunk.       *)

\* dst[start .. start + len(src)].copy_from_slice(src) on self.packet
CopyFromSlice(pk, start, src) ==
    [i \in 0..SBUS_PACKET_SIZE |->
        IF i >= start /\ i < start + Len(src) THEN src[i - start + 1] ELSE pk[i]]

\* packet.copy_within(from..to, 0), packet = self.packet[1..]
CopyWithin(pk, from, to) ==
    [i \in 0..SBUS_PACKET_SIZE |->
        IF i >= 1 /\ i < 1 + (to - from) THEN pk[i + from] ELSE pk[i]]

Slice(bytes, from) == SubSeq(bytes, from + 1, Len(bytes))

\* the scan with the comparison inverted
find_partial_packet_inverted(pk, sz, bytes) ==
    LET hits == {i \in 0..(Len(bytes) - 1) : bytes[i + 1] # SBUS_PACKET_BEGIN}
    IN  IF hits = {} THEN [packet |-> pk, size |-> sz]
        ELSE LET i == CHOOSE h \in hits : \A g \in hits : h <= g
             IN  [packet |-> CopyFromSlice(pk, 1, Slice(bytes, i)),
                  size   |-> Len(bytes) - i]

\* receiver.rs:25-33
find_partial_packet(pk, sz, bytes) ==
    LET hits == {i \in 0..(Len(bytes) - 1) : bytes[i + 1] = SBUS_PACKET_BEGIN}
    IN  IF hits = {} THEN [packet |-> pk, size |-> sz]
        ELSE LET i == CHOOSE h \in hits : \A g \in hits : h <= g
             IN  [packet |-> CopyFromSlice(pk, 1, Slice(bytes, i)),
                  size   |-> Len(bytes) - i]

Outcome(pk, sz, r, st) == [packet |-> pk, size |-> sz, ret |-> r, status |-> st]

\* the completion without the scan of the leftover bytes
complete_no_rescan(pk, sz, offset, bytes) ==
    LET size == sz - offset
        remain_size == SBUS_PACKET_SIZE - size
        p1 == CopyWithin(pk, offset, sz)
        p2 == CopyFromSlice(p1, 1 + size, SubSeq(bytes, 1, remain_size))
    IN  Outcome(p2, 0, Some(parse(p2)), "ok")

\* the completion that leaves the buffered bytes where they are
complete_no_shift(pk, sz, offset, bytes) ==
    LET size == sz - offset
        remain_size == SBUS_PACKET_SIZE - size
        p2 == CopyFromSlice(pk, 1 + size, SubSeq(bytes, 1, remain_size))
        f  == find_partial_packet(p2, 0, Slice(bytes, remain_size))
    IN  Outcome(f.packet, f.size, Some(parse(p2)), "ok")

\* receiver.rs:49-55, the frame that starts at offset is complete
complete(pk, sz, offset, bytes) ==
    LET size == sz - offset
        remain_size == SBUS_PACKET_SIZE - size
        p1 == CopyWithin(pk, offset, sz)
        p2 == CopyFromSlice(p1, 1 + size, SubSeq(bytes, 1, remain_size))
        f  == find_partial_packet(p2, 0, Slice(bytes, remain_size))
    IN  Outcome(f.packet, f.size, Some(parse(p2)), "ok")

\* receiver.rs:44-46, the chunk is too short to complete the frame at offset
append(pk, sz, offset, bytes) ==
    LET size == sz - offset
    IN  Outcome(CopyFromSlice(pk, 1 + size, bytes), sz + Len(bytes), None, "ok")

\* receiver.rs:35-60.  A panic ends the call with the fields as they were:
\* packet[offset] out of range; SBUS_PACKET_SIZE - size below zero (overflow
\* check in a debug build, a wrapped value and then an out-of-range slice in
\* a release build); bytes[remain_size - 1] with remain_size = 0 (overflow
\* check, or index usize::MAX); copy_within past the end of packet.
RECURSIVE continue_loop(_, _, _, _)
continue_loop(pk, sz, bytes, offset) ==
    IF offset >= sz THEN Outcome(pk, 0, None, "ok")
    ELSE IF offset >= SBUS_PACKET_SIZE THEN Outcome(pk, sz, None, "panic")
    ELSE IF pk[1 + offset] # SBUS_PACKET_BEGIN THEN continue_loop(pk, sz, bytes, offset + 1)
    ELSE LET size == sz - offset IN
         IF size > SBUS_PACKET_SIZE THEN Outcome(pk, sz, None, "panic")
         ELSE LET remain_size == SBUS_PACKET_SIZE - size IN
              IF Len(bytes) < remain_size THEN append(pk, sz, offset, bytes)
              ELSE IF remain_size = 0 THEN Outcome(pk, sz, None, "panic")
              ELSE IF is_sbus_packet_end(bytes[remain_size])
              THEN IF sz > SBUS_PACKET_SIZE THEN Outcome(pk, sz, None, "panic")
                   ELSE complete(pk, sz, offset, bytes)
              ELSE continue_loop(pk, sz, bytes, offset + 1)

continue_receive(pk, sz, bytes) == continue_loop(pk, sz, bytes, 0)

\* the length check with < for <=
assert_len_strict(bytes) == Len(bytes) < SBUS_PACKET_SIZE

\* receiver.rs:64, the condition of assert!
assert_len(bytes) == Len(bytes) <= SBUS_PACKET_SIZE

\* the fast path that knows the S.BUS 1 end marker only
fast_path_sbus1(bytes) ==
    /\ Len(bytes) = SBUS_PACKET_SIZE
    /\ bytes[1] = SBUS_PACKET_BEGIN
    /\ bytes[SBUS_PACKET_SIZE] = 0

\* receiver.rs:71-72, the conditions of the two nested ifs
fast_path(bytes) ==
    /\ Len(bytes) = SBUS_PACKET_SIZE
    /\ bytes[1] = SBUS_PACKET_BEGIN
    /\ is_sbus_packet_end(bytes[SBUS_PACKET_SIZE])

\* the scan that starts at byte 0 of a 25-byte chunk too
scan_index_zero(bytes) == 0

\* receiver.rs:70-78, index when the fast path did not return
scan_index(bytes) == IF Len(bytes) = SBUS_PACKET_SIZE THEN 1 ELSE 0

\* receiver.rs:63-81; "assert" is the failed assert! of line 64
receive(pk, sz, bytes) ==
    IF ~assert_len(bytes) THEN Outcome(pk, sz, None, "assert")
    ELSE LET c == IF sz > 0 THEN continue_receive(pk, sz, bytes)
                  ELSE Outcome(pk, sz, None, "ok")
         IN  IF c.status # "ok" \/ c.ret # None THEN c
             ELSE IF fast_path(bytes)
             THEN LET p == CopyFromSlice(c.packet, 1, bytes)
                  IN  Outcome(p, c.size, Some(parse(p)), "ok")
             ELSE LET index == scan_index(bytes)
                      f == find_partial_packet(c.packet, c.size, Slice(bytes, index))
                  IN  Outcome(f.packet, f.size, None, "ok")

\* receiver.rs:21-23
new == [packet |-> [i \in 0..SBUS_PACKET_SIZE |-> 0], size |-> 0]

\* receiver.rs:83-85
reset(pk, sz) == [packet |-> pk, size |-> 0]

----------------------------------------------------------------------------
(* Inputs.                                                                 *)

\* the sample frame of the tests (receiver.rs:92-93, lib.rs:150-151)
SBUS_SAMPLE_PACKET ==
    <<15, 224, 3, 31, 88, 192, 7, 22, 176, 128, 5, 44, 96, 1, 11, 248, 192, 7,
      0, 0, 0, 0, 0, 3, 0>>

StartMarker == 15
EndMarkers == {0, 4, 20, 36, 52}
IsValidFrame(f) == Len(f) = 25 /\ f[1] = StartMarker /\ f[25] \in EndMarkers

RECURSIVE Rep(_, _)
Rep(b, n) == IF n = 0 THEN <<>> ELSE <<b>> \o Rep(b, n - 1)

\* a frame with end marker e whose payload is all fill, except that byte m
\* (when m > 0) is a start marker
MarkedFrame(e, fill, m) ==
    [i \in 1..25 |-> IF i = 1 THEN StartMarker
                     ELSE IF i = 25 THEN e
                     ELSE IF i = m + 1 THEN StartMarker
                     ELSE fill]

\* frames for the fragment runs: every end marker, and a start marker at
\* every payload position
TestFrames ==
    {SBUS_SAMPLE_PACKET}
        \cup {MarkedFrame(e, 255, 0) : e \in EndMarkers}
        \cup {MarkedFrame(0, 255, m) : m \in 1..23}

\* frames for the back-to-back runs
BackFrames ==
    {SBUS_SAMPLE_PACKET, MarkedFrame(52, 0, 2), MarkedFrame(20, 255, 23)}

\* bounds of the free runs: receive calls in a run, start markers in a row
MaxCalls == 3
MaxBegin == 2

\* noise of one byte and of 23 to 26 bytes (26 is longer than receive
\* accepts), zeros that put an end marker where a buffered frame expects it
NoiseLens == {1} \cup (SBUS_PACKET_SIZE - 2)..(SBUS_PACKET_SIZE + 1)
ZeroLens == (SBUS_PACKET_SIZE - 2)..(SBUS_PACKET_SIZE - 1)

\* the two chunks of test_header_not_sbus (receiver.rs:130, 133): noise that
\* ends in 0F 0F E0, and the rest of the sample frame followed by FF FF
HeaderNoise == Rep(0, 22) \o <<StartMarker, StartMarker, 224>>
SampleRest == SubSeq(SBUS_SAMPLE_PACKET, 3, 25) \o <<255, 255>>

Chunks ==
    {<<>>, <<StartMarker, 0, StartMarker>>, <<StartMarker>> \o Rep(255, SBUS_PACKET_SIZE - 1)}
        \cup {HeaderNoise, SampleRest, MarkedFrame(1, 255, 23)}
        \cup {Rep(StartMarker, j) : j \in 1..MaxBegin}
        \cup {Rep(255, n) : n \in NoiseLens}
        \cup {Rep(0, n) : n \in ZeroLens}
        \cup BackFrames

\* bounds of the fragment and back-to-back runs
MaxFrags == 3
MaxFrames == 3

----------------------------------------------------------------------------
(* The state: the receiver, the last call, and the run it is part of.      *)

VARIABLES
    packet,     \* Receiver.packet
    size,       \* Receiver.size
    status,     \* "ok", "assert" (failed assert!) or "panic": the program's execution
    ret,        \* what the last call returned
    op,         \* the last call: "new", "receive", "reset", "parse", "lib_parse"
    arg,        \* the chunk (or frame) the last call was given
    psize,      \* size on entry of the last call
    calls,      \* receive calls so far
    shadow,     \* a Receiver constructed at the last reset and given the same calls
    tracking,   \* whether reset has been called
    frames,     \* the frames a fragment or back-to-back run delivers
    cut,        \* the split offset k of a back-to-back run
    pos,        \* bytes of frames[1] delivered by a fragment run
    stream,     \* a stream run: the bytes received since construction or the last reset
    noise       \* a stream run: every chunk so far held a start marker and no
                \* end marker where a buffered start marker expects it

vars == <<packet, size, status, ret, op, arg, psize, calls, shadow, tracking, frames, cut, pos,
          stream, noise>>

Fresh == Outcome(new.packet, new.size, None, "ok")

InitReceiver ==
    /\ packet = new.packet
    /\ size = new.size
    /\ status = "ok"
    /\ ret = None
    /\ op = "new"
    /\ arg = <<>>
    /\ psize = 0
    /\ calls = 0
    /\ shadow = Fresh
    /\ tracking = FALSE
    /\ stream = <<>>
    /\ noise = TRUE

\* one call of Receiver::receive, on the receiver and on its shadow
Receive(bytes) ==
    /\ status = "ok"
    /\ \E o \in {receive(packet, size, bytes)} :
           /\ packet' = o.packet
           /\ size' = o.size
           /\ ret' = o.ret
           /\ status' = o.status
    /\ op' = "receive"
    /\ arg' = bytes
    /\ psize' = size
    /\ calls' = calls + 1
    /\ shadow' = IF tracking /\ shadow.status = "ok"
                 THEN receive(shadow.packet, shadow.size, bytes)
                 ELSE shadow
    /\ UNCHANGED tracking

\* one call of Receiver::reset; the shadow is constructed anew
Reset ==
    /\ status = "ok"
    /\ \E o \in {reset(packet, size)} :
           /\ packet' = o.packet
           /\ size' = o.size
    /\ ret' = None
    /\ op' = "reset"
    /\ arg' = <<>>
    /\ psize' = size
    /\ shadow' = Fresh
    /\ tracking' = TRUE
    /\ UNCHANGED <<status, calls>>

----------------------------------------------------------------------------
(* Spec: any calls, chunks drawn from Chunks.                              *)

Init ==
    /\ InitReceiver
    /\ frames = <<>>
    /\ cut = 0
    /\ pos = 0

ReceiveChunk ==
    /\ calls < MaxCalls
    /\ \E bytes \in Chunks : Receive(bytes)
    /\ UNCHANGED <<frames, cut, pos, stream, noise>>

ResetCall ==
    /\ Reset
    /\ UNCHANGED <<frames, cut, pos, stream, noise>>

Next == ReceiveChunk \/ ResetCall

Spec == Init /\ [][Next]_vars

----------------------------------------------------------------------------
(* SpecFrag: one valid frame delivered in consecutive non-empty fragments. *)

InitFrag ==
    /\ InitReceiver
    /\ \E f \in TestFrames : frames = <<f>>
    /\ cut = 0
    /\ pos = 0

Fragment ==
    /\ calls < MaxFrags
    /\ \E n \in 1..(SBUS_PACKET_SIZE - 1) :
          /\ pos + n <= SBUS_PACKET_SIZE
          /\ Receive(SubSeq(frames[1], pos + 1, pos + n))
          /\ pos' = pos + n
    /\ UNCHANGED <<frames, cut, stream, noise>>

NextFrag == Fragment

SpecFrag == InitFrag /\ [][NextFrag]_vars

----------------------------------------------------------------------------
(* SpecBack: frames back to back, the line cut every 25 bytes at offset k. *)

FrameSeqs == {q \in UNION {[1..n -> BackFrames] : n \in 2..MaxFrames} : TRUE}

InitBack ==
    /\ InitReceiver
    /\ frames \in FrameSeqs
    /\ cut \in 1..(SBUS_PACKET_SIZE - 1)
    /\ pos = 0

\* F1[0..k)
BackFirst ==
    /\ calls = 0
    /\ Receive(SubSeq(frames[1], 1, cut))
    /\ UNCHANGED <<frames, cut, pos, stream, noise>>

\* Cn = Fn[k..25) ++ F(n+1)[0..k)
BackNext ==
    /\ calls >= 1
    /\ calls < Len(frames)
    /\ Receive(SubSeq(frames[calls], cut + 1, SBUS_PACKET_SIZE) \o SubSeq(frames[calls + 1], 1, cut))
    /\ UNCHANGED <<frames, cut, pos, stream, noise>>

NextBack == BackFirst \/ BackNext

SpecBack == InitBack /\ [][NextBack]_vars

----------------------------------------------------------------------------
(* SpecStream: any calls, with the bytes received so far kept.             *)

\* the chunk holds a start marker, is no valid frame itself, and has no end
\* marker at the frame-end position of any start marker in the buffer
IsNoise(pk, sz, bytes) ==
    /\ \E i \in 1..Len(bytes) : bytes[i] = StartMarker
    /\ ~IsValidFrame(bytes)
    /\ \A offset \in 0..(sz - 1) :
          (offset < SBUS_PACKET_SIZE /\ pk[1 + offset] = StartMarker) =>
              LET remain_size == SBUS_PACKET_SIZE - (sz - offset)
              IN  ~(remain_size >= 1 /\ remain_size <= Len(bytes)
                    /\ bytes[remain_size] \in EndMarkers)

StreamChunk ==
    /\ calls < MaxCalls
    /\ \E bytes \in Chunks :
          /\ Receive(bytes)
          /\ stream' = stream \o bytes
          /\ noise' = (noise /\ IsNoise(packet, size, bytes))
    /\ UNCHANGED <<frames, cut, pos>>

StreamReset ==
    /\ Reset
    /\ stream' = <<>>
    /\ noise' = FALSE
    /\ UNCHANGED <<frames, cut, pos>>

NextStream == StreamChunk \/ StreamReset

SpecStream == Init /\ [][NextStream]_vars

----------------------------------------------------------------------------
(* SpecParse: Packet::parse applied to a frame.                            *)

\* the frame whose only set bit among bytes 1..23 is bit b of the bit stream
\* that starts at byte 1, and the frame whose only clear bit is that one
OneHot(b) ==
    [i \in 1..25 |-> IF i = 1 THEN StartMarker
                     ELSE IF i = 25 THEN 0
                     ELSE IF i = 2 + (b \div 8) THEN 2 ^ (b % 8) ELSE 0]
OneCold(b) ==
    [i \in 1..25 |-> IF i = 1 THEN StartMarker
                     ELSE IF i = 25 THEN 0
                     ELSE IF i = 2 + (b \div 8) THEN 255 - 2 ^ (b % 8) ELSE 255]

\* the sample frame with every value of the flag byte (frame byte 23)
FlagFrames == {[SBUS_SAMPLE_PACKET EXCEPT ![24] = v] : v \in 0..255}

ParseFrames ==
    {SBUS_SAMPLE_PACKET} \cup {OneHot(b) : b \in 0..183} \cup {OneCold(b) : b \in 0..183}
        \cup FlagFrames

InitParse ==
    /\ InitReceiver
    /\ \E f \in ParseFrames : frames = <<f>>
    /\ cut = 0
    /\ pos = 0

\* transmute of the frame behind one padding byte, then packet.rs parse
ParsePacket ==
    /\ op' = "parse"
    /\ arg' = frames[1]
    /\ ret' = Some(parse(AsPacket(frames[1])))
    /\ UNCHANGED <<packet, size, status, psize, calls, shadow, tracking, frames, cut, pos,
                   stream, noise>>

\* the same with lib.rs parse
ParseLib ==
    /\ op' = "lib_parse"
    /\ arg' = frames[1]
    /\ ret' = Some(lib_parse(AsPacket(frames[1])))
    /\ UNCHANGED <<packet, size, status, psize, calls, shadow, tracking, frames, cut, pos,
                   stream, noise>>

NextParse == ParsePacket \/ ParseLib

SpecParse == InitParse /\ [][NextParse]_vars

----------------------------------------------------------------------------
(* Properties.                                                             *)

Decoded(f) == Some(parse(AsPacket(f)))
HasMarker(bytes) == \E i \in 1..Len(bytes) : bytes[i] = StartMarker
PayloadHasMarker(f) == \E i \in 2..24 : f[i] = StartMarker

\* bit b of the little-endian bit stream of frame bytes 1..22
StreamBit(f, b) == (f[2 + (b \div 8)] \div (2 ^ (b % 8))) % 2
\* the unsigned 11-bit integer in bits 11*i .. 11*i+10 of that stream
RECURSIVE FieldFrom(_, _, _)
FieldFrom(f, i, b) ==
    IF b = 11 THEN 0 ELSE StreamBit(f, 11 * i + b) * (2 ^ b) + FieldFrom(f, i, b + 1)
Field(f, i) == FieldFrom(f, i, 0)

\* C1: a valid frame split at k in 1..24 over two receive calls on a new
\* Receiver: the first call returns none, the second the decoding of the
\* unsplit frame.
C1_SplitFrame ==
    /\ (calls = 1 /\ pos < 25) => (ret = None /\ status = "ok")
    /\ (calls = 2 /\ pos = 25) => (ret = Decoded(frames[1]) /\ status = "ok")
C1_Witness ==
    /\ calls = 2 /\ pos = 25 /\ op = "receive"
    /\ PayloadHasMarker(frames[1])
    /\ ret = Decoded(frames[1])

\* C2: a valid frame cut into any number (>= 2) of non-empty fragments:
\* every call before the last returns none and the call that delivers the
\* last byte returns the decoding of the frame, whatever the payload.
C2_AnyFragments ==
    /\ (calls >= 1 /\ pos < 25) => ret = None
    /\ (calls >= 2 /\ pos = 25) => ret = Decoded(frames[1])

\* C3: parse (packet.rs) of the sample frame yields channels
\* 992 992 352 992 352 352 352 352 352 352 992 992 0 0 0 0 and all four
\* flags false.
C3_SampleDecoding ==
    (op = "parse" /\ arg = SBUS_SAMPLE_PACKET) =>
        ret = Some([channels   |-> <<992, 992, 352, 992, 352, 352, 352, 352,
                                     352, 352, 992, 992, 0, 0, 0, 0>>,
                    channel17  |-> FALSE, channel18 |-> FALSE,
                    frame_lost |-> FALSE, failsafe  |-> FALSE])

\* C4: parse (packet.rs) returns for each i in 0..15 the 11-bit field in
\* bits 11*i .. 11*i+10 of the little-endian bit stream of bytes 1..22.
C4_ChannelFields ==
    op = "parse" => \A i \in 0..15 : ret[1].channels[i + 1] = Field(arg, i)

\* C5: a valid 25-byte chunk received with an empty buffer is decoded in
\* that call and the buffer stays empty.
C5_FastPath ==
    (op = "receive" /\ psize = 0 /\ IsValidFrame(arg)) =>
        (ret = Decoded(arg) /\ size = 0 /\ status = "ok")
C5_Witness ==
    /\ op = "receive" /\ psize = 0 /\ IsValidFrame(arg)
    /\ calls >= 2 /\ arg[25] # 0
    /\ ret = Decoded(arg) /\ size = 0

\* C6: a chunk of length 0..25 without a start marker, received with an
\* empty buffer, returns none and leaves the buffer empty.
C6_NoMarker ==
    (op = "receive" /\ psize = 0 /\ Len(arg) <= 25 /\ ~HasMarker(arg)) =>
        (ret = None /\ size = 0 /\ status = "ok")
C6_Witness ==
    /\ op = "receive" /\ psize = 0 /\ arg = Rep(255, 25)
    /\ ret = None /\ size = 0

\* C7: after reset, every sequence of receive calls returns the same
\* results and produces the same count and the same valid buffered bytes
\* as on a newly constructed Receiver.
C7_ResetAsNew ==
    tracking =>
        /\ ret = shadow.ret
        /\ status = shadow.status
        /\ size = shadow.size
        /\ \A i \in 1..SBUS_PACKET_SIZE : i <= size => packet[i] = shadow.packet[i]

\* C8: frames back to back, the first k bytes and then 25-byte chunks
\* Cn = Fn[k..25) ++ F(n+1)[0..k): the call with Cn returns the decoding of
\* Fn and leaves F(n+1)[0..k) buffered (count = k).
C8_BackToBack ==
    /\ calls = 1 => (ret = None /\ size = cut)
    /\ calls >= 2 => (ret = Decoded(frames[calls - 1]) /\ size = cut)
    /\ \A i \in 1..SBUS_PACKET_SIZE :
          (calls >= 1 /\ i <= cut) => packet[i] = frames[calls][i]
C8_Witness ==
    /\ calls = 3 /\ frames[1] # frames[2]
    /\ PayloadHasMarker(frames[2])
    /\ ret = Decoded(frames[2]) /\ size = cut

\* C9: with chunks of length 0..25 no receive or reset call aborts.
C9_NoAbort == status # "panic"

\* C10: receive fails its length assertion exactly when the chunk is longer
\* than 25 bytes, and then before any field is changed.
C10_LengthAssert ==
    [][op' = "receive" =>
          /\ (status' = "assert") <=> (Len(arg') > 25)
          /\ (status' = "assert") => (packet' = packet /\ size' = size)]_vars
C10_Witness ==
    /\ op = "receive" /\ Len(arg) = 26 /\ status = "assert"
    /\ psize > 0 /\ size = psize

\* C11: chunks that hold a start marker but no end marker at the frame end
\* of any buffered start marker never return a decoded result, and a valid
\* frame delivered afterwards as one 25-byte chunk is returned decoded,
\* without a crash.
C11_NoiseThenFrame ==
    [][(op' = "receive" /\ noise) =>
          /\ noise' => (ret' = None /\ status' = "ok")
          /\ (calls >= 1 /\ IsValidFrame(arg')) => (ret' = Decoded(arg') /\ status' = "ok")]_vars

\* C12: the count of buffered bytes (size) never exceeds 25.
C12_SizeInRange == size \in 0..SBUS_PACKET_SIZE

\* C13: whenever the count is above 0, the first buffered byte is the start
\* marker and the count is below 25.
C13_PartialPrefix == size > 0 => (packet[1] = StartMarker /\ size < SBUS_PACKET_SIZE)

\* the 25-byte windows of the chunks received since construction or the
\* last reset
Windows == {SubSeq(stream, s, s + SBUS_PACKET_SIZE - 1) :
               s \in 1..(Len(stream) - SBUS_PACKET_SIZE + 1)}

\* C14: whenever receive returns a decoded result, it is the decoding of 25
\* bytes that are consecutive in the concatenation of the chunks received
\* since construction or the last reset, the first of them 0x0F and the last
\* of them in the end-marker whitelist.
C14_AdjacentBytes ==
    (op = "receive" /\ ret # None) =>
        \E w \in Windows : IsValidFrame(w) /\ ret = Decoded(w)
\* a frame completed from the second buffered start marker, over two chunks
C14_Witness ==
    /\ op = "receive" /\ arg = SampleRest /\ psize = 3
    /\ stream = HeaderNoise \o SampleRest
    /\ ret = Decoded(SBUS_SAMPLE_PACKET)

\* the valid buffered bytes of a receiver
Buffered(pk, sz) == [k \in 1..sz |-> pk[k]]

\* C15: with a partial frame of n > 0 bytes buffered and a chunk of fewer
\* than 25 - n bytes, receive returns none, the count becomes n + len(chunk)
\* and the buffered bytes are the old ones followed by the chunk, whatever
\* the chunk contains.
C15_ShortChunkAppends ==
    [][(op' = "receive" /\ size > 0 /\ Len(arg') < SBUS_PACKET_SIZE - size) =>
          /\ ret' = None
          /\ size' = size + Len(arg')
          /\ Buffered(packet', size') = Buffered(packet, size) \o arg']_vars

\* no buffered start marker has a whitelisted byte of the chunk at its
\* frame-end position
NoEndAt(pk, sz, bytes) ==
    \A offset \in 0..(sz - 1) :
        pk[1 + offset] = StartMarker =>
            LET remain_size == SBUS_PACKET_SIZE - (sz - offset)
            IN  ~(remain_size <= Len(bytes) /\ bytes[remain_size] \in EndMarkers)

\* C16: with a partial frame buffered, a chunk that reaches 25 bytes from
\* the first buffered start marker, and no whitelisted byte at the frame-end
\* position of any buffered start marker, receive discards the buffer and
\* treats the chunk as fresh input: the result, the count and the buffered
\* bytes are those of a new Receiver receiving the same chunk.
C16_ResyncAsFresh ==
    [][(/\ op' = "receive" /\ Len(arg') <= SBUS_PACKET_SIZE
        /\ size > 0 /\ size < SBUS_PACKET_SIZE /\ packet[1] = StartMarker
        /\ Len(arg') >= SBUS_PACKET_SIZE - size
        /\ NoEndAt(packet, size, arg')) =>
          LET fresh == receive(new.packet, new.size, arg')
          IN  /\ ret' = fresh.ret
              /\ status' = fresh.status
              /\ size' = fresh.size
              /\ Buffered(packet', size') = Buffered(fresh.packet, fresh.size)]_vars

\* the indices i >= from (counted from 0) with bytes[i] = 0x0F
MarkersFrom(bytes, from) == {i \in from..(Len(bytes) - 1) : bytes[i + 1] = StartMarker}
\* the buffer holds the suffix of bytes that starts at the first marker at
\* or after from, and nothing if there is none
HoldsSuffixFrom(bytes, from) ==
    IF MarkersFrom(bytes, from) = {} THEN size = 0
    ELSE LET i == CHOOSE h \in MarkersFrom(bytes, from) :
                      \A g \in MarkersFrom(bytes, from) : h <= g
         IN  size = Len(bytes) - i /\ Buffered(packet, size) = Slice(bytes, i)

\* C17 as stated: with the buffer empty on entry and a chunk of length <= 25
\* that the fast path does not decode, the buffer afterwards holds the chunk
\* suffix from the smallest index i with chunk[i] = 0x0F, for every chunk.
C17_SuffixFromFirstMarker ==
    (op = "receive" /\ psize = 0 /\ Len(arg) <= SBUS_PACKET_SIZE /\ ~IsValidFrame(arg)) =>
        (ret = None /\ HoldsSuffixFrom(arg, 0))

\* C17 amended: the scan starts at index 1 for a 25-byte chunk and at index
\* 0 for a shorter one; the buffer holds the chunk suffix from the smallest
\* index i at or after that start with chunk[i] = 0x0F, and is empty if
\* there is no such index.
C17_SuffixFromScanStart ==
    (op = "receive" /\ psize = 0 /\ Len(arg) <= SBUS_PACKET_SIZE /\ ~IsValidFrame(arg)) =>
        (ret = None
         /\ HoldsSuffixFrom(arg, IF Len(arg) = SBUS_PACKET_SIZE THEN 1 ELSE 0))
\* a 25-byte chunk with 0x0F at bytes 0 and 23 and a last byte outside the
\* whitelist: the two bytes from index 23 are buffered
C17_Witness ==
    /\ op = "receive" /\ psize = 0 /\ arg = MarkedFrame(1, 255, 23)
    /\ ret = None /\ size = 2 /\ packet[1] = StartMarker /\ packet[2] = 1

\* bit b of a byte
Bit(byte, b) == (byte \div (2 ^ b)) % 2 = 1

\* C18: parse sets channel17, channel18, frame_lost and failsafe to bits 7,
\* 6, 5 and 4 of frame byte 23, whatever the other bits and bytes are, and
\* the channel values are those of the same frame with byte 23 cleared.
C18_FlagBits ==
    op = "parse" =>
        /\ ret[1].channel17  = Bit(arg[24], 7)
        /\ ret[1].channel18  = Bit(arg[24], 6)
        /\ ret[1].frame_lost = Bit(arg[24], 5)
        /\ ret[1].failsafe   = Bit(arg[24], 4)
        /\ ret[1].channels = parse(AsPacket([arg EXCEPT ![24] = 0])).channels
\* flag byte 0xAF: bits 7 and 5 set, 6 and 4 clear, the unused bits set
C18_Witness ==
    /\ op = "parse" /\ arg[24] = 175
    /\ ret[1].channel17 /\ ~ret[1].channel18
    /\ ret[1].frame_lost /\ ~ret[1].failsafe

\* the documented generating formulas of the tables (packet.rs:24, 26)
ShiftFormula(i) == (16 - ((11 * i) % 16)) % 16
IndexFormula(i) == (11 * (i + 1)) \div 16

====
